---- MODULE Spec2Model ----
(***************************************************************************)
(* Model of TrayManagement.py: a floors x slots warehouse of pallets with  *)
(* a single access lane per floor.  A click on a cell starts an insert     *)
(* (adding) or remove (removing) transaction that relocates the blocking   *)
(* pallets of the request floor to other floors, mutates the target cell   *)
(* and moves every relocated pallet back.                                  *)
(*                                                                         *)
(* Coordinates: the warehouse matrix and the recorded moves are 0-based,   *)
(* the blocking list and the lists of empty slots are 1-based, exactly as  *)
(* in the source.  The `placeholder` parameter of                          *)
(* find_empty_slots_other_floors is False at every call site and is left   *)
(* out.                                                                    *)
(***************************************************************************)
EXTENDS Integers, Sequences, FiniteSets, TLC

\* Warehouse size (8 x 18 in the source, scaled down here).
floors == 3
slots == 3
\* Number of transactions one behaviour may start.
MaxTx == 2

\* Cost model, as passed by adding/removing to compare_strategies.
slot_time == 15
floor_time == 100
handling_time == 10

FloorIdx == 0 .. (floors - 1)
SlotIdx == 0 .. (slots - 1)
Grids == [FloorIdx -> [SlotIdx -> BOOLEAN]]

Abs(x) == IF x < 0 THEN -x ELSE x

\* Number of occupied cells of a grid.
Occupied(w) == Cardinality({c \in FloorIdx \X SlotIdx : w[c[1]][c[2]]})

\* Stable insertion sort of a list of <<key, value>> pairs by ascending key.
RECURSIVE InsertSorted(_, _)
InsertSorted(x, sq) ==
    IF sq = <<>> THEN <<x>>
    ELSE IF x[1] < Head(sq)[1] THEN <<x>> \o sq
    ELSE <<Head(sq)>> \o InsertSorted(x, Tail(sq))

RECURSIVE SortPairs(_)
SortPairs(sq) ==
    IF sq = <<>> THEN <<>>
    ELSE InsertSorted(sq[Len(sq)], SortPairs(SubSeq(sq, 1, Len(sq) - 1)))

\* Python's order of (floor, slot) tuples as an integer key.
TupleKey(c) == c[1] * (slots + 2) + c[2]

\* sorted(sq) and sorted(sq, reverse=True) on lists of (floor, slot) tuples.
sorted(sq) ==
    LET r == SortPairs([i \in 1 .. Len(sq) |-> <<TupleKey(sq[i]), sq[i]>>])
    IN  [i \in 1 .. Len(r) |-> r[i][2]]
sorted_reverse(sq) ==
    LET r == SortPairs([i \in 1 .. Len(sq) |-> <<0 - TupleKey(sq[i]), sq[i]>>])
    IN  [i \in 1 .. Len(r) |-> r[i][2]]

InSeq(x, sq) == \E i \in 1 .. Len(sq) : sq[i] = x

\* list.remove(x): drops the first occurrence.
RECURSIVE RemoveFirst(_, _)
RemoveFirst(sq, x) ==
    IF sq = <<>> THEN <<>>
    ELSE IF Head(sq) = x THEN Tail(sq)
    ELSE <<Head(sq)>> \o RemoveFirst(Tail(sq), x)

\* Mutant of check_blocking_infloor: the scan runs one slot too far,
\* range(slot + 1), and takes in the target slot.
check_blocking_inclusive(w, floor, slot) ==
    SelectSeq([i \in 1 .. (slot + 1) |-> <<floor + 1, i>>],
              LAMBDA c : w[floor][c[2] - 1])

\* check_blocking_infloor(floor, slot): floor, slot 0-based, result 1-based.
check_blocking_infloor(w, floor, slot) ==
    SelectSeq([i \in 1 .. slot |-> <<floor + 1, i>>],
              LAMBDA c : w[floor][c[2] - 1])

\* floor_indices = list(range(floors)); floor_indices.remove(current_floor)
floor_indices(current_floor) ==
    SelectSeq([i \in 1 .. floors |-> i - 1], LAMBDA x : x # current_floor)

\* Mutant of floor_indices_sorted: the sort by distance is left out.
floor_indices_unsorted(current_floor) ==
    floor_indices(current_floor)

\* floor_indices.sort(key=lambda x: abs(x - current_floor)), a stable sort.
floor_indices_sorted(current_floor) ==
    LET fi == floor_indices(current_floor)
        r == SortPairs([i \in 1 .. Len(fi) |-> <<Abs(fi[i] - current_floor), fi[i]>>])
    IN  [i \in 1 .. Len(r) |-> r[i][2]]

\* The cells visited by "for f in order: for s in range(slots)", 0-based.
RECURSIVE ScanCells(_)
ScanCells(order) ==
    IF order = <<>> THEN <<>>
    ELSE [i \in 1 .. slots |-> <<Head(order), i - 1>>] \o ScanCells(Tail(order))

\* The loop of the normal strategy: append every free cell, return as soon
\* as the length tested after an append equals `needed`.
RECURSIVE NormalScan(_, _, _, _, _)
NormalScan(w, cells, i, needed, empty) ==
    IF i > Len(cells) THEN empty
    ELSE IF ~w[cells[i][1]][cells[i][2]]
         THEN LET e2 == Append(empty, <<cells[i][1] + 1, cells[i][2] + 1>>)
              IN  IF Len(e2) = needed THEN e2
                  ELSE NormalScan(w, cells, i + 1, needed, e2)
         ELSE NormalScan(w, cells, i + 1, needed, empty)

find_normal(w, current_floor, needed) ==
    NormalScan(w, ScanCells(floor_indices_sorted(current_floor)), 1, needed, <<>>)

\* candidates of the optuna strategy: every free cell of the other floors,
\* floors in ascending order, 1-based.
optuna_candidates(w, current_floor) ==
    LET cells == ScanCells(floor_indices(current_floor))
        free == SelectSeq(cells, LAMBDA c : ~w[c[1]][c[2]])
    IN  [i \in 1 .. Len(free) |-> <<free[i][1] + 1, free[i][2] + 1>>]

\* best_indices: the best trial's parameters slot_0 .. slot_{needed-1},
\* deduplicated in first-seen order.
RECURSIVE BestIndices(_, _, _, _)
BestIndices(params, i, needed, best) ==
    IF i > needed THEN best
    ELSE LET b2 == IF InSeq(params[i], best) THEN best ELSE Append(best, params[i])
         IN  IF Len(b2) = needed THEN b2
             ELSE BestIndices(params, i + 1, needed, b2)

\* The optuna strategy.  The study's best trial is whatever the sampler
\* happened to draw: any assignment of candidate indices to the `needed`
\* parameters (with duplicates when every trial of the budget drew some).
find_optuna(w, current_floor, needed) ==
    LET candidates == optuna_candidates(w, current_floor)
    IN  IF Len(candidates) < needed THEN {candidates}
        ELSE {[k \in 1 .. Len(BestIndices(params, 1, needed, <<>>)) |->
                  candidates[BestIndices(params, 1, needed, <<>>)[k]]] :
              params \in [1 .. needed -> 1 .. Len(candidates)]}

\* find_empty_slots_other_floors(current_floor, needed, False, strategy=...):
\* the set of lists a call can return.
find_empty_slots_other_floors(w, current_floor, needed, strategy) ==
    IF strategy = "normal" THEN {find_normal(w, current_floor, needed)}
    ELSE find_optuna(w, current_floor, needed)

\* One term of total_cost: the time to carry a pallet from `from` to `to`.
pair_cost(from, to) ==
    2 * Abs(from[1] - to[1]) * floor_time + Abs(from[2] - to[2]) * slot_time
        + handling_time

\* total_cost(assignments, blocking): zip pairs the two lists as they are
\* and stops at the shorter one.
RECURSIVE total_cost(_, _)
total_cost(assignments, blocking) ==
    IF assignments = <<>> \/ blocking = <<>> THEN 0
    ELSE pair_cost(Head(blocking), Head(assignments))
             + total_cost(Tail(assignments), Tail(blocking))

\* sq[:n]
Take(sq, n) == SubSeq(sq, 1, IF n < Len(sq) THEN n ELSE Len(sq))

\* Mutant of cheaper: equal costs resolve to optuna.
cheaper_ties_optuna(normal_cost, optuna_cost) ==
    IF normal_cost < optuna_cost THEN "normal" ELSE "optuna"

\* The final comparison of compare_strategies.
cheaper(normal_cost, optuna_cost) ==
    IF normal_cost < optuna_cost THEN "normal"
    ELSE IF optuna_cost < normal_cost THEN "optuna"
    ELSE "normal"

\* compare_strategies(current_floor, blocking): the set of answers a call
\* can give, one per outcome of the optuna search.
compare_strategies(w, current_floor, blocking) ==
    LET needed == Len(blocking)
        normal_slots == find_normal(w, current_floor, needed)
    IN  {cheaper(total_cost(Take(normal_slots, needed), blocking),
                 total_cost(Take(optuna_slots, needed), blocking)) :
         optuna_slots \in find_optuna(w, current_floor, needed)}

\* animate_move: the logical change, destination first, then the source.
animate_move(w, src_floor, src_slot, dst_floor, dst_slot) ==
    LET w1 == [w EXCEPT ![dst_floor][dst_slot] = w[src_floor][src_slot]]
    IN  [w1 EXCEPT ![src_floor][src_slot] = FALSE]

\* The guard of moveinside.
moveinside_ok(w, floor, slot, target) ==
    w[floor][slot] /\ ~w[floor][target]

SeqMax(sq) == CHOOSE m \in {sq[i] : i \in 1 .. Len(sq)} :
                  \A i \in 1 .. Len(sq) : sq[i] <= m

\* empty_candidate: for each floor 1..floors in order, the slots of
\* temp_empty on that floor; floors without slots are dropped.
empty_candidate_of(temp_empty) ==
    LET on(f) == SelectSeq(temp_empty, LAMBDA e : e[1] = f /\ e[2] > 0)
        all == [f \in 1 .. floors |->
                   <<f, [i \in 1 .. Len(on(f)) |-> on(f)[i][2]]>>]
    IN  SelectSeq(all, LAMBDA e : e[2] # <<>>)

\* The highest occupied slot (1-based) of floor f (1-based) at or below s,
\* 0 when there is none: the inner scan "for s in range(max, 0, -1)".
RECURSIVE next_occupied(_, _, _)
next_occupied(w, f, s) ==
    IF s < 1 THEN 0
    ELSE IF w[f - 1][s - 1] THEN s
    ELSE next_occupied(w, f, s - 1)

\* Where the consolidation loops find their next pallet, from entry ci of
\* empty_candidate and slot s downwards: <<ci, s>>, or <<0, 0>> at the end.
RECURSIVE next_cons(_, _, _, _)
next_cons(w, ec, ci, s) ==
    IF ci > Len(ec) THEN <<0, 0>>
    ELSE IF next_occupied(w, ec[ci][1], s) > 0
         THEN <<ci, next_occupied(w, ec[ci][1], s)>>
         ELSE IF ci + 1 > Len(ec) THEN <<0, 0>>
              ELSE next_cons(w, ec, ci + 1, SeqMax(ec[ci + 1][2]))

VARIABLES
    warehouse,  \* the occupancy matrix, warehouse[floor][slot], 0-based
    file,       \* the contents of warehouse_state.json
    status,     \* the message shown in the status label
    stack,      \* the activations of adding/removing that have not returned
    last,       \* the activation that returned most recently (history)
    prev,       \* the activation that returned before that one (history)
    wrote,      \* the call site of save_warehouse in the latest step (history)
    started     \* number of transactions started so far

vars == <<warehouse, file, status, stack, last, prev, wrote, started>>

\* What input() can return at the confirmation prompt.
Answers == {"", "q"}

\* Positions at which an activation sits inside animate_move's root.update().
PumpPcs == {"cons_pump", "cross_pump", "restore_pump"}

NoLast ==
    [op |-> "none", FLOOR |-> 0, SLOT |-> 0, path |-> "none", msg |-> "Ready",
     before |-> warehouse, after |-> warehouse, blocking |-> <<>>,
     moves |-> <<>>, asked |-> FALSE, pumped |-> FALSE, click |-> FALSE,
     depth |-> 0]

Init ==
    /\ warehouse \in Grids
    /\ file = warehouse
    /\ status = "Ready"
    /\ stack = <<>>
    /\ last = NoLast
    /\ prev = NoLast
    /\ wrote = "none"
    /\ started = 0

top == stack[Len(stack)]
SetTop(fr) == [stack EXCEPT ![Len(stack)] = fr]
Pop == SubSeq(stack, 1, Len(stack) - 1)

\* The record left behind by an activation fr that returns with grid w,
\* having been called with `depth - 1` activations below it.
Returned(fr, depth, w, path, msg) ==
    [op |-> fr.op, FLOOR |-> fr.FLOOR, SLOT |-> fr.SLOT, path |-> path,
     msg |-> msg, before |-> fr.G0, after |-> w, blocking |-> fr.blocking,
     moves |-> fr.moves, asked |-> fr.asked, pumped |-> fr.pumped,
     click |-> fr.click, depth |-> depth]

\* A return of activation fr, on top of the activations `rest`, with grid w.
\* A call made by on_cell_click continues with status.set(msg) and
\* save_warehouse(); `saved` tells whether the function itself saved last.
Return(fr, rest, w, path, msg, saved) ==
    /\ stack' = rest
    /\ last' = Returned(fr, Len(rest) + 1, w, path, msg)
    /\ prev' = last
    /\ IF fr.click
       THEN /\ status' = msg
            /\ file' = w
            /\ wrote' = "on_cell_click"
       ELSE /\ status' = status
            /\ file' = IF saved THEN w ELSE file
            /\ wrote' = IF saved THEN "restored" ELSE "none"

\* Mutant of Begin: removing, a copy of adding, keeps adding's
\* "warehouse[FLOOR][SLOT] = True" on its direct path.
BeginDirectAlwaysAdds(rest, f, s, op, click) ==
    LET blocking == check_blocking_infloor(warehouse, f, s)
    IN  /\ started < MaxTx
        /\ started' = started + 1
        /\ \E output \in compare_strategies(warehouse, 0, blocking) :
             LET fr == [op |-> op, FLOOR |-> f, SLOT |-> s, pc |-> "confirm",
                        blocking |-> blocking, strategy |-> output,
                        empty_candidate |-> <<>>, ci |-> 0, s |-> 0,
                        target |-> 0, moves |-> <<>>,
                        temp_new_empty |-> <<>>, bi |-> 0, ri |-> 0,
                        G0 |-> warehouse, click |-> click, asked |-> FALSE,
                        pumped |-> FALSE]
             IN  IF blocking = <<>>
                 THEN /\ warehouse' = [warehouse EXCEPT ![f][s] = TRUE]
                      /\ Return(fr, rest, warehouse', "Direct",
                                IF op = "adding" THEN "Added" ELSE "Removed",
                                FALSE)
                 ELSE /\ stack' = Append(rest, fr)
                      /\ wrote' = "none"
                      /\ UNCHANGED <<warehouse, file, status, last, prev>>

\* Mutant of Begin: the confirmation prompt comes before the test for an
\* empty blocking list, so the direct path asks as well.
BeginPromptsFirst(rest, f, s, op, click) ==
    LET blocking == check_blocking_infloor(warehouse, f, s)
    IN  /\ started < MaxTx
        /\ started' = started + 1
        /\ \E output \in compare_strategies(warehouse, 0, blocking) :
             LET fr == [op |-> op, FLOOR |-> f, SLOT |-> s, pc |-> "confirm",
                        blocking |-> blocking, strategy |-> output,
                        empty_candidate |-> <<>>, ci |-> 0, s |-> 0,
                        target |-> 0, moves |-> <<>>,
                        temp_new_empty |-> <<>>, bi |-> 0, ri |-> 0,
                        G0 |-> warehouse, click |-> click, asked |-> FALSE,
                        pumped |-> FALSE]
             IN  IF blocking = <<>>
                 THEN /\ warehouse' = [warehouse EXCEPT ![f][s] = (op = "adding")]
                      /\ Return([fr EXCEPT !.asked = TRUE], rest, warehouse',
                                "Direct",
                                IF op = "adding" THEN "Added" ELSE "Removed",
                                FALSE)
                 ELSE /\ stack' = Append(rest, fr)
                      /\ wrote' = "none"
                      /\ UNCHANGED <<warehouse, file, status, last, prev>>

\* The entry of adding(f, s) / removing(f, s) up to the confirmation prompt:
\* blocking detection, strategy selection and the direct path.
Begin(rest, f, s, op, click) ==
    LET blocking == check_blocking_infloor(warehouse, f, s)
    IN  /\ started < MaxTx
        /\ started' = started + 1
        /\ \E output \in compare_strategies(warehouse, 0, blocking) :
             LET strategy == IF output = "normal" THEN "normal"
                             ELSE IF output = "optuna" THEN "optuna"
                             ELSE "normal"
                 fr == [op |-> op, FLOOR |-> f, SLOT |-> s, pc |-> "confirm",
                        blocking |-> blocking, strategy |-> strategy,
                        empty_candidate |-> <<>>, ci |-> 0, s |-> 0,
                        target |-> 0, moves |-> <<>>,
                        temp_new_empty |-> <<>>, bi |-> 0, ri |-> 0,
                        G0 |-> warehouse, click |-> click, asked |-> FALSE,
                        pumped |-> FALSE]
             IN  IF blocking = <<>>
                 THEN /\ warehouse' = [warehouse EXCEPT ![f][s] = (op = "adding")]
                      /\ Return(fr, rest, warehouse',  "Direct",
                                IF op = "adding" THEN "Added" ELSE "Removed",
                                FALSE)
                 ELSE /\ stack' = Append(rest, fr)
                      /\ wrote' = "none"
                      /\ UNCHANGED <<warehouse, file, status, last, prev>>

\* on_cell_click(f, s): a free cell is inserted into, an occupied one removed.
on_cell_click(rest, f, s) ==
    Begin(rest, f, s, IF warehouse[f][s] = FALSE THEN "adding" ELSE "removing", TRUE)

\* A click dispatched by the main loop while no transaction runs.
Click(f, s) ==
    /\ stack = <<>>
    /\ on_cell_click(<<>>, f, s)

\* A click dispatched by root.update() inside animate_move, while the
\* activation on top of the stack is in the middle of a move.
PumpClick(f, s) ==
    /\ stack # <<>>
    /\ top.pc \in PumpPcs
    /\ on_cell_click(SetTop([top EXCEPT !.pumped = TRUE]), f, s)

\* adding / removing called directly, not through on_cell_click.
CallAdding(f, s) ==
    /\ stack = <<>>
    /\ Begin(<<>>, f, s, "adding", FALSE)

CallRemoving(f, s) ==
    /\ stack = <<>>
    /\ Begin(<<>>, f, s, "removing", FALSE)

\* Mutant of Confirm: the target cell is written before the prompt is
\* answered and before the feasibility check, so an aborted call leaves it
\* changed.
ConfirmAfterWrite(answer) ==
    /\ stack # <<>>
    /\ top.pc = "confirm"
    /\ UNCHANGED started
    /\ LET fr == [top EXCEPT !.asked = TRUE]
           written == [warehouse EXCEPT ![fr.FLOOR][fr.SLOT] = (fr.op = "adding")]
       IN  IF answer = "q"
           THEN /\ warehouse' = written
                /\ Return(fr, Pop, written, "Cancelled", "Cancelled", FALSE)
           ELSE \E empty \in find_empty_slots_other_floors(
                                 warehouse, fr.FLOOR, Len(fr.blocking), fr.strategy) :
                  IF Len(empty) < Len(fr.blocking)
                  THEN /\ warehouse' = written
                       /\ Return(fr, Pop, written, "Infeasible", "NotEnough", FALSE)
                  ELSE LET ec == empty_candidate_of(sorted_reverse(empty))
                       IN  /\ stack' = SetTop([fr EXCEPT
                                  !.pc = "consolidate",
                                  !.empty_candidate = ec,
                                  !.ci = 1,
                                  !.s = SeqMax(ec[1][2]),
                                  !.target = SeqMax(ec[1][2])])
                           /\ wrote' = "none"
                           /\ UNCHANGED <<warehouse, file, status, last, prev>>

\* The answer to input(), the search for destinations and the pre-execution
\* feasibility check.
Confirm(answer) ==
    /\ stack # <<>>
    /\ top.pc = "confirm"
    /\ UNCHANGED <<warehouse, started>>
    /\ LET fr == [top EXCEPT !.asked = TRUE]
       IN  IF answer = "q"
           THEN Return(fr, Pop, warehouse, "Cancelled", "Cancelled", FALSE)
           ELSE \E empty \in find_empty_slots_other_floors(
                                 warehouse, fr.FLOOR, Len(fr.blocking), fr.strategy) :
                  IF Len(empty) < Len(fr.blocking)
                  THEN Return(fr, Pop, warehouse, "Infeasible", "NotEnough", FALSE)
                  ELSE LET ec == empty_candidate_of(sorted_reverse(empty))
                       IN  /\ stack' = SetTop([fr EXCEPT
                                  !.pc = "consolidate",
                                  !.empty_candidate = ec,
                                  !.ci = 1,
                                  !.s = SeqMax(ec[1][2]),
                                  !.target = SeqMax(ec[1][2])])
                           /\ wrote' = "none"
                           /\ UNCHANGED <<file, status, last, prev>>

\* A move is one step: the grid changes in animate_move, root.update() is
\* entered, and pc is cons_pump, cross_pump or restore_pump until the
\* activation's next step.  The statements between root.update() and that
\* next step touch only locals of the activation (moves, target,
\* temp_new_empty, the loop indices), which nothing dispatched by
\* root.update() can read, so the step of the move performs them; the one
\* exception, moveinside's save_warehouse(), runs at the start of the next
\* step (SaveAfterMoveinside).
phase(fr) ==
    IF fr.pc = "cons_pump" THEN "consolidate"
    ELSE IF fr.pc = "cross_pump" THEN "cross"
    ELSE IF fr.pc = "restore_pump" THEN "restore"
    ELSE fr.pc

\* moveinside calls save_warehouse() when its animate_move returns.
SaveAfterMoveinside ==
    IF top.pc = "cons_pump"
    THEN file' = warehouse /\ wrote' = "moveinside"
    ELSE file' = file /\ wrote' = "none"

\* The pallet the consolidation loops reach next, and the slot it goes to.
cons_next(fr) == next_cons(warehouse, fr.empty_candidate, fr.ci, fr.s)

\* Mutant of cons_target: target is set to max(emptyslot) again for every
\* pallet instead of being lowered after each move.
cons_target_resets(fr, nxt) ==
    SeqMax(fr.empty_candidate[nxt[1]][2])

cons_target(fr, nxt) ==
    IF nxt[1] = fr.ci THEN fr.target
    ELSE SeqMax(fr.empty_candidate[nxt[1]][2])

\* Consolidation: moveinside slides the next pallet of a destination floor
\* to `target` through animate_move; the loop records the move and lowers
\* target.
ConsMove ==
    /\ stack # <<>>
    /\ phase(top) = "consolidate"
    /\ LET nxt == cons_next(top)
           f == top.empty_candidate[nxt[1]][1]
           target == cons_target(top, nxt)
       IN  /\ nxt # <<0, 0>>
           /\ moveinside_ok(warehouse, f - 1, nxt[2] - 1, target - 1)
           /\ warehouse' = animate_move(warehouse, f - 1, nxt[2] - 1, f - 1, target - 1)
           /\ stack' = SetTop([top EXCEPT
                  !.pc = "cons_pump",
                  !.ci = nxt[1], !.s = nxt[2] - 1, !.target = target - 1,
                  !.moves = Append(@, <<<<f - 1, nxt[2] - 1>>, <<f - 1, target - 1>>>>)])
    /\ SaveAfterMoveinside
    /\ UNCHANGED <<status, last, prev, started>>

\* Consolidation, the "Move failed" branch of moveinside: nothing moves, yet
\* the loop records the move and lowers target.
ConsMoveFailed ==
    /\ stack # <<>>
    /\ phase(top) = "consolidate"
    /\ LET nxt == cons_next(top)
           f == top.empty_candidate[nxt[1]][1]
           target == cons_target(top, nxt)
       IN  /\ nxt # <<0, 0>>
           /\ ~moveinside_ok(warehouse, f - 1, nxt[2] - 1, target - 1)
           /\ stack' = SetTop([top EXCEPT
                  !.pc = "consolidate",
                  !.ci = nxt[1], !.s = nxt[2] - 1, !.target = target - 1,
                  !.moves = Append(@, <<<<f - 1, nxt[2] - 1>>, <<f - 1, target - 1>>>>)])
    /\ SaveAfterMoveinside
    /\ UNCHANGED <<warehouse, status, last, prev, started>>

\* End of consolidation: the destination pool is recomputed with the normal
\* strategy and sorted descending.  empty_candidate and the loop variables
\* are not read again.
ConsDone ==
    /\ stack # <<>>
    /\ phase(top) = "consolidate"
    /\ cons_next(top) = <<0, 0>>
    /\ stack' = SetTop([top EXCEPT
           !.pc = "cross", !.bi = 1,
           !.empty_candidate = <<>>, !.ci = 0, !.s = 0, !.target = 0,
           !.temp_new_empty =
               sorted_reverse(find_normal(warehouse, top.FLOOR, Len(top.blocking)))])
    /\ SaveAfterMoveinside
    /\ UNCHANGED <<warehouse, status, last, prev, started>>

\* Cross-floor pass: the next pallet of temp_blocking = sorted(blocking)
\* goes to the first entry of the pool, unchecked; the move is recorded and
\* its destination leaves the pool.
CrossMove ==
    /\ stack # <<>>
    /\ phase(top) = "cross"
    /\ top.bi <= Len(top.blocking)
    /\ top.temp_new_empty # <<>>
    /\ LET block == sorted(top.blocking)[top.bi]
           target == top.temp_new_empty[1]
       IN  /\ warehouse' = animate_move(warehouse, block[1] - 1, block[2] - 1,
                                        target[1] - 1, target[2] - 1)
           /\ stack' = SetTop([top EXCEPT
                  !.pc = "cross_pump", !.bi = @ + 1,
                  !.moves = Append(@, <<<<block[1] - 1, block[2] - 1>>,
                                         <<target[1] - 1, target[2] - 1>>>>),
                  !.temp_new_empty = RemoveFirst(@, target)])
    /\ wrote' = "none"
    /\ UNCHANGED <<file, status, last, prev, started>>

\* Cross-floor pass with an exhausted pool: the function returns with the
\* moves made so far left in place.
CrossExhausted ==
    /\ stack # <<>>
    /\ phase(top) = "cross"
    /\ top.bi <= Len(top.blocking)
    /\ top.temp_new_empty = <<>>
    /\ Return(top, Pop, warehouse, "Partial", "NoSlot", FALSE)
    /\ UNCHANGED <<warehouse, started>>

\* The target mutation, followed by save_warehouse().
Execute ==
    /\ stack # <<>>
    /\ phase(top) = "cross"
    /\ top.bi > Len(top.blocking)
    /\ warehouse' = [warehouse EXCEPT ![top.FLOOR][top.SLOT] = (top.op = "adding")]
    /\ file' = warehouse'
    /\ wrote' = "execute"
    /\ stack' = SetTop([top EXCEPT !.pc = "restore", !.ri = Len(top.moves)])
    /\ UNCHANGED <<status, last, prev, started>>

\* Restoration: the recorded moves are replayed backwards, last one first.
RestoreMove ==
    /\ stack # <<>>
    /\ phase(top) = "restore"
    /\ top.ri >= 1
    /\ LET orig == top.moves[top.ri][1]
           dest == top.moves[top.ri][2]
       IN  warehouse' = animate_move(warehouse, dest[1], dest[2], orig[1], orig[2])
    /\ stack' = SetTop([top EXCEPT !.pc = "restore_pump", !.ri = @ - 1])
    /\ wrote' = "none"
    /\ UNCHANGED <<file, status, last, prev, started>>

\* After the last restoring move: save_warehouse() and the final message,
\* which reads "Added pallet" in removing as well.
Finish ==
    /\ stack # <<>>
    /\ phase(top) = "restore"
    /\ top.ri = 0
    /\ Return(top, Pop, warehouse, "Done", "Added", TRUE)
    /\ UNCHANGED <<warehouse, started>>

\* The steps of a transaction in which every move finds the grid as its
\* planner left it.
Relocate ==
    \/ \E answer \in Answers : Confirm(answer)
    \/ ConsMove
    \/ ConsDone
    \/ CrossMove
    \/ Execute
    \/ RestoreMove
    \/ Finish

Step ==
    \/ Relocate
    \/ ConsMoveFailed
    \/ CrossExhausted

\* The program: clicks reach on_cell_click from the main loop and from the
\* root.update() of a move in progress.
Next ==
    \/ \E f \in FloorIdx, s \in SlotIdx : Click(f, s)
    \/ \E f \in FloorIdx, s \in SlotIdx : PumpClick(f, s)
    \/ Step

Spec == Init /\ [][Next]_vars

\* adding and removing called on any coordinate by a caller that runs no
\* event loop: no click is dispatched inside a move, which is what
\* ConsMoveFailed and CrossExhausted need.
NextApi ==
    \/ \E f \in FloorIdx, s \in SlotIdx : CallAdding(f, s)
    \/ \E f \in FloorIdx, s \in SlotIdx : CallRemoving(f, s)
    \/ Relocate

SpecApi == Init /\ [][NextApi]_vars

----------------------------------------------------------------------------
\* The grid a completed insert/remove of record r is meant to leave: the
\* grid before the call with the target cell set (insert) or cleared (remove).
Requested(r) == [r.before EXCEPT ![r.FLOOR][r.SLOT] = (r.op = "adding")]

Completed(r) == r.path \in {"Direct", "Done"}

\* C1: a transaction with a non-empty blocking set that runs to completion
\* (returns from the restore step) leaves the target cell with the requested
\* value and every other cell as it was before the call.
C1_DoneRestoresGrid ==
    last.path = "Done" => last.after = Requested(last)

\* C2: the number of occupied cells changes only in the step of the target
\* mutation (the direct path or the Executing step); no consolidation,
\* cross-floor or restoring move changes it.
C2_CountChangesOnlyAtMutation ==
    [][Occupied(warehouse') # Occupied(warehouse)
          => \/ started' = started + 1 /\ last'.path = "Direct"
             \/ wrote' = "execute"]_vars

\* The last two activations are an insert and a remove of the same cell,
\* both completed, both called from the main loop with no click dispatched
\* inside either, the remove starting from the grid the insert left.
RoundTrip ==
    /\ Completed(prev) /\ prev.op = "adding"
    /\ Completed(last) /\ last.op = "removing"
    /\ prev.FLOOR = last.FLOOR /\ prev.SLOT = last.SLOT
    /\ prev.depth = 1 /\ last.depth = 1
    /\ ~prev.pumped /\ ~last.pumped
    /\ prev.after = last.before

\* C3: an insert at a free cell followed immediately by a remove of the same
\* cell, both completing and nothing else running, ends with the grid the
\* insert started from.
C3_RoundTrip ==
    RoundTrip => last.after = prev.before

\* C3 witness: a round trip in which both transactions relocated pallets.
C3_Witness ==
    /\ RoundTrip
    /\ prev.path = "Done" /\ last.path = "Done"
    /\ Len(prev.moves) >= 2

\* C4: a transaction that ends Cancelled or Infeasible (before execution)
\* leaves every cell as it was before the call.
C4_AbortLeavesGrid ==
    last.path \in {"Cancelled", "Infeasible"} => last.after = last.before

\* C4 witness: an insert that needs relocation while every other floor is
\* full has returned Infeasible.
C4_Witness ==
    /\ last.path = "Infeasible"
    /\ last.op = "adding"
    /\ \A f \in FloorIdx \ {last.FLOOR} : \A s \in SlotIdx : last.before[f][s]

\* C5: with an empty blocking set the call takes the direct path: only the
\* target cell is set, no move is applied or recorded, and the confirmation
\* prompt is not shown; an activation that waits or relocates has blockers.
C5_DirectPath ==
    /\ \A i \in 1 .. Len(stack) : stack[i].blocking # <<>>
    /\ (last.path # "none" /\ last.blocking = <<>>)
           => /\ last.path = "Direct"
              /\ last.after = Requested(last)
              /\ last.moves = <<>>
              /\ ~last.asked

\* C5 witness: a pallet was removed directly from a slot with occupied slots
\* on its floor, none of them to its left.
C5_Witness ==
    /\ last.path = "Direct"
    /\ last.op = "removing"
    /\ last.blocking = <<>>
    /\ \E s \in SlotIdx : s > last.SLOT /\ last.before[last.FLOOR][s]

\* C6: adding on an occupied cell and removing on a free cell never report
\* success.
C6_NoSilentSuccess ==
    ~ /\ Completed(last)
      /\ \/ last.op = "adding" /\ last.before[last.FLOOR][last.SLOT]
         \/ last.op = "removing" /\ ~last.before[last.FLOOR][last.SLOT]

\* C7: the grid is written to the file only when a transaction has
\* completed: never inside a transaction whose pallets are still relocated,
\* never when a transaction was aborted.
C7_WriteOnlyOnCompletion ==
    \/ wrote = "none"
    \/ wrote \in {"restored", "on_cell_click"} /\ Completed(last)

\* C8: while a transaction is in progress no other transaction starts.
C8_Serialized ==
    [][stack # <<>> => started' = started]_vars

\* The blocking list b is exactly the occupied cells of `floor` left of
\* `slot` in grid w, 1-based, in ascending slot order.
IsBlockingOf(b, w, floor, slot) ==
    /\ {b[i] : i \in 1 .. Len(b)}
           = {<<floor + 1, k + 1>> : k \in {j \in 0 .. (slot - 1) : w[floor][j]}}
    /\ \A i \in 1 .. Len(b) : \A j \in 1 .. Len(b) : i < j => b[i][2] < b[j][2]

\* C9: check_blocking_infloor returns exactly the occupied coordinates of
\* the floor with a slot index strictly below the target's, ascending; this
\* holds of the blocking list of every call of adding/removing.
C9_BlockingExact ==
    /\ \A i \in 1 .. Len(stack) :
           IsBlockingOf(stack[i].blocking, stack[i].G0, stack[i].FLOOR, stack[i].SLOT)
    /\ last.path # "none"
           => IsBlockingOf(last.blocking, last.before, last.FLOOR, last.SLOT)

\* C9 witness: a remove is waiting with two blockers while its own (occupied)
\* target and another floor's pallets are not in the list.
C9_Witness ==
    /\ stack # <<>>
    /\ top.op = "removing"
    /\ Len(top.blocking) = 2
    /\ \E f \in FloorIdx \ {top.FLOOR} : warehouse[f][0]

\* What C10 says of one result r of a search from current_floor.
FindResultOK(r, w, current_floor, needed) ==
    /\ Len(r) <= needed
    /\ \A i \in 1 .. Len(r) : \A j \in 1 .. Len(r) : i # j => r[i] # r[j]
    /\ \A i \in 1 .. Len(r) :
           /\ r[i][1] - 1 \in FloorIdx /\ r[i][2] - 1 \in SlotIdx
           /\ ~w[r[i][1] - 1][r[i][2] - 1]
           /\ r[i][1] - 1 # current_floor

\* C10: for every current floor, every needed >= 0 and both strategies,
\* find_empty_slots_other_floors returns at most `needed` coordinates,
\* pairwise distinct, free, and none on the current floor.
C10_FindAtMostNeeded ==
    \A current_floor \in FloorIdx : \A needed \in 0 .. slots :
        \A strategy \in {"normal", "optuna"} :
            \A r \in find_empty_slots_other_floors(
                         warehouse, current_floor, needed, strategy) :
                FindResultOK(r, warehouse, current_floor, needed)

\* Some outcome of the optuna search costs strictly less / not less than the
\* normal assignment, both cut to len(blocking) entries.
OptunaCheaper(w, current_floor, blocking) ==
    \E o \in find_optuna(w, current_floor, Len(blocking)) :
        total_cost(Take(o, Len(blocking)), blocking)
            < total_cost(Take(find_normal(w, current_floor, Len(blocking)),
                              Len(blocking)), blocking)
OptunaNotCheaper(w, current_floor, blocking) ==
    \E o \in find_optuna(w, current_floor, Len(blocking)) :
        total_cost(Take(o, Len(blocking)), blocking)
            >= total_cost(Take(find_normal(w, current_floor, Len(blocking)),
                               Len(blocking)), blocking)

\* C11: compare_strategies answers "optuna" only for an optuna assignment
\* whose computed cost is strictly below the normal assignment's, and
\* "normal" whenever it is equal or above; the strategy an activation works
\* with was chosen that way.  (The function is pure and every grid is an
\* initial state, so the first conjunct ranges over the initial states.)
C11_OptunaOnlyIfCheaper ==
    /\ started = 0 =>
         \A current_floor \in FloorIdx : \A f \in FloorIdx : \A s \in SlotIdx :
             LET blocking == check_blocking_infloor(warehouse, f, s)
                 answers == compare_strategies(warehouse, current_floor, blocking)
             IN  /\ answers \subseteq {"normal", "optuna"}
                 /\ "optuna" \in answers
                        <=> OptunaCheaper(warehouse, current_floor, blocking)
                 /\ "normal" \in answers
                        <=> OptunaNotCheaper(warehouse, current_floor, blocking)
    /\ \A i \in 1 .. Len(stack) :
           stack[i].strategy = "optuna"
               => OptunaCheaper(stack[i].G0, 0, stack[i].blocking)

\* C11 witness: an activation works with the optuna strategy although
\* another outcome of the search would have made the answer "normal".
C11_Witness ==
    /\ stack # <<>>
    /\ top.strategy = "optuna"
    /\ OptunaNotCheaper(top.G0, 0, top.blocking)

\* The cost of carrying one pallet from a to b, as the claim C12 writes it.
cost(a, b) ==
    2 * floor_time * Abs(a[1] - b[1]) + slot_time * Abs(a[2] - b[2])
        + handling_time

\* The sum of cost over the positional pairing of two sorted sequences.
RECURSIVE PairingCost(_, _)
PairingCost(origins, destinations) ==
    IF origins = <<>> \/ destinations = <<>> THEN 0
    ELSE cost(Head(origins), Head(destinations))
             + PairingCost(Tail(origins), Tail(destinations))

\* The assignments compare_strategies hands to total_cost for a request
\* whose blocking list is `blocking`.
Costed(w, current_floor, blocking) ==
    {Take(r, Len(blocking)) :
        r \in {find_normal(w, current_floor, Len(blocking))}
                  \cup find_optuna(w, current_floor, Len(blocking))}

\* C12: total_cost pairs the blocking list and the assignment after sorting
\* each ascending by (floor, slot), for every assignment a strategy returns.
C12_TotalCostSortsFirst ==
    started = 0 =>
        \A f \in FloorIdx : \A s \in SlotIdx :
            LET blocking == check_blocking_infloor(warehouse, f, s)
            IN  \A a \in Costed(warehouse, 0, blocking) :
                    total_cost(a, blocking)
                        = PairingCost(sorted(blocking), sorted(a))

\* C13: every move applied in a transaction, whether a consolidation or
\* cross-floor move (the step that records it) or a restoring move (the step
\* that replays it backwards), finds its origin occupied and its destination
\* free, and every recorded move was applied to the grid; the "Move failed"
\* branch of moveinside is never taken.
C13_MovesValid ==
    [][(stack # <<>> /\ Len(stack') = Len(stack)) =>
          /\ Len(stack'[Len(stack)].moves) = Len(top.moves) + 1 =>
                LET m == stack'[Len(stack)].moves[Len(top.moves) + 1]
                IN  /\ warehouse[m[1][1]][m[1][2]]
                    /\ ~warehouse[m[2][1]][m[2][2]]
                    /\ warehouse'
                         = animate_move(warehouse, m[1][1], m[1][2], m[2][1], m[2][2])
          /\ (phase(top) = "restore" /\ stack'[Len(stack)].ri = top.ri - 1) =>
                LET m == top.moves[top.ri]
                IN  /\ warehouse[m[2][1]][m[2][2]]
                    /\ ~warehouse[m[1][1]][m[1][2]]
      ]_vars

\* The assignments costed for the strategy decision of a request on
\* (FLOOR, SLOT): adding/removing pass current_floor=0 to compare_strategies.
RequestCosted(w, FLOOR, SLOT) ==
    Costed(w, 0, check_blocking_infloor(w, FLOOR, SLOT))

\* C14: for a request on floor f the destinations costed by the strategy
\* decision lie on floors other than f, whichever floor f is.
C14_ComparedRelativeToRequestFloor ==
    started = 0 =>
        \A f \in FloorIdx : \A s \in SlotIdx :
            \A a \in RequestCosted(warehouse, f, s) :
                \A i \in 1 .. Len(a) : a[i][1] - 1 # f

\* The slots (1-based) of the destination pool of activation fr on floor f
\* (0-based), and the consolidation moves before the k-th on the same floor.
PoolOn(fr, f) ==
    UNION {{fr.empty_candidate[i][2][j] : j \in 1 .. Len(fr.empty_candidate[i][2])} :
              i \in {n \in 1 .. Len(fr.empty_candidate) : fr.empty_candidate[n][1] = f + 1}}
EarlierOn(fr, k) ==
    {j \in 1 .. (k - 1) : fr.moves[j][1][1] = fr.moves[k][1][1]}
SetMax(S) == CHOOSE m \in S : \A x \in S : x <= m

\* What C15 says of every consolidation move but its destination: it stays
\* on one floor, not the request floor, starts at or below the floor's
\* highest proposed destination slot, and the slots are taken descending.
ConsOrderOK(fr, k) ==
    LET orig == fr.moves[k][1]
        dest == fr.moves[k][2]
    IN  /\ orig[1] = dest[1]
        /\ orig[1] # fr.FLOOR
        /\ PoolOn(fr, orig[1]) # {}
        /\ orig[2] + 1 <= SetMax(PoolOn(fr, orig[1]))
        /\ \A j \in EarlierOn(fr, k) : fr.moves[j][1][2] > orig[2]

\* C15 as stated: in the consolidation pass every move is as ConsOrderOK
\* says, and its destination is the highest slot of the destination pool on
\* its floor that no earlier consolidation move has used.
C15_ConsolidationToPool ==
    \A i \in 1 .. Len(stack) :
        phase(stack[i]) = "consolidate" =>
            \A k \in 1 .. Len(stack[i].moves) :
                LET fr == stack[i]
                    left == PoolOn(fr, fr.moves[k][1][1])
                               \ {fr.moves[j][2][2] + 1 : j \in EarlierOn(fr, k)}
                IN  /\ ConsOrderOK(fr, k)
                    /\ left # {}
                    /\ fr.moves[k][2][2] + 1 = SetMax(left)

\* C15 amended: in the consolidation pass every move is as ConsOrderOK says,
\* and the destination of the k-th move on a floor is that floor's highest
\* proposed destination slot lowered by k - 1, a slot of the pool or not.
C15_ConsolidationDescending ==
    \A i \in 1 .. Len(stack) :
        phase(stack[i]) = "consolidate" =>
            \A k \in 1 .. Len(stack[i].moves) :
                LET fr == stack[i]
                IN  /\ ConsOrderOK(fr, k)
                    /\ fr.moves[k][2][2] + 1
                          = SetMax(PoolOn(fr, fr.moves[k][1][1]))
                                - Cardinality(EarlierOn(fr, k))

\* C15 witness: two pallets of one floor were slid, the second to a slot
\* that is not in the destination pool.
C15_Witness ==
    /\ stack # <<>>
    /\ phase(top) = "consolidate"
    /\ Len(top.moves) = 2
    /\ top.moves[1][1][1] = top.moves[2][1][1]
    /\ top.moves[2][2][2] + 1 \notin PoolOn(top, top.moves[2][1][1])
    /\ warehouse[top.moves[2][2][1]][top.moves[2][2][2]]

\* C16: the confirmation prompt is shown at most once per transaction and
\* before the transaction has changed the grid; only the prompt cancels, and
\* a transaction whose prompt was answered affirmatively ends Done or in the
\* partial-failure abort.
C16_GateOnceThenNoAbort ==
    /\ \A i \in 1 .. Len(stack) :
           IF stack[i].pc = "confirm"
           THEN /\ ~stack[i].asked
                /\ i = Len(stack)
                /\ stack[i].moves = <<>>
                /\ warehouse = stack[i].G0
           ELSE stack[i].asked
    /\ last.path = "Cancelled"
           => last.asked /\ last.moves = <<>> /\ last.after = last.before
    /\ (last.asked /\ last.path # "Cancelled")
           => last.path \in {"Done", "Partial"}

\* Cell c is visited strictly before cell d by a scan that takes the floors
\* by ascending distance from current_floor and the slots of a floor
\* ascending (1-based coordinates, current_floor 0-based).
GreedyBefore(c, d, current_floor) ==
    \/ Abs(c[1] - 1 - current_floor) < Abs(d[1] - 1 - current_floor)
    \/ c[1] = d[1] /\ c[2] < d[2]

\* The free cells of the floors other than current_floor, 1-based.
FreeElsewhere(w, current_floor) ==
    {<<f + 1, s + 1>> : <<f, s>> \in
        {c \in (FloorIdx \ {current_floor}) \X SlotIdx : ~w[c[1]][c[2]]}}

\* r is a first-come selection of min(needed, free) free cells of that scan.
IsGreedy(r, w, current_floor, needed) ==
    LET free == FreeElsewhere(w, current_floor)
        chosen == {r[i] : i \in 1 .. Len(r)}
    IN  /\ Len(r) = IF needed < Cardinality(free) THEN needed ELSE Cardinality(free)
        /\ Cardinality(chosen) = Len(r)
        /\ chosen \subseteq free
        /\ \A i \in 1 .. Len(r) : \A j \in 1 .. Len(r) :
               i < j => ~GreedyBefore(r[j], r[i], current_floor)
        /\ \A c \in free \ chosen : \A i \in 1 .. Len(r) :
               ~GreedyBefore(c, r[i], current_floor)

\* C17: with the normal strategy and needed >= 1 the search has one possible
\* result, the first min(needed, free) free cells of the scan by ascending
\* floor distance and ascending slot; the pool of the cross-floor pass is
\* that result, sorted descending.
C17_GreedyExact ==
    /\ started = 0 =>
         \A current_floor \in FloorIdx : \A needed \in 1 .. slots :
             LET results == find_empty_slots_other_floors(
                                warehouse, current_floor, needed, "normal")
             IN  /\ Cardinality(results) = 1
                 /\ \A r \in results : IsGreedy(r, warehouse, current_floor, needed)
    /\ \A i \in 1 .. Len(stack) :
           (stack[i].pc = "cross" /\ stack[i].bi = 1) =>
               \E r \in find_empty_slots_other_floors(
                            warehouse, stack[i].FLOOR, Len(stack[i].blocking), "normal") :
                   /\ IsGreedy(r, warehouse, stack[i].FLOOR, Len(stack[i].blocking))
                   /\ stack[i].temp_new_empty = sorted_reverse(r)

\* C17 witness: a request on the last floor with two blockers gets a pool
\* that takes the one free cell of the nearest floor and one of the floor
\* beyond it, which still has free cells left.
C17_Witness ==
    /\ stack # <<>>
    /\ top.pc = "cross" /\ top.bi = 1
    /\ top.FLOOR = floors - 1
    /\ Len(top.temp_new_empty) = 2
    /\ top.temp_new_empty[1][1] = floors - 1
    /\ top.temp_new_empty[2][1] = floors - 2
    /\ Cardinality(FreeElsewhere(warehouse, top.FLOOR)) > 2

\* C18: once the feasibility check has passed, the pool recomputed after
\* consolidation holds an unused entry for every blocking pallet still to
\* be moved, and no transaction ends in the partial-failure abort.
C18_PoolNeverExhausted ==
    /\ last.path # "Partial"
    /\ \A i \in 1 .. Len(stack) :
           phase(stack[i]) = "cross" =>
               Len(stack[i].temp_new_empty)
                   >= Len(stack[i].blocking) - (stack[i].bi - 1)

\* C19: a transaction with blockers that found at least len(blocking) free
\* cells on the other floors when it started, and whose prompt was answered
\* affirmatively, ends Done: it is not turned down as Infeasible, whatever
\* the optuna search returned.
C19_FeasibleEndsDone ==
    (/\ last.asked
     /\ last.path # "Cancelled"
     /\ Cardinality(FreeElsewhere(last.before, last.FLOOR)) >= Len(last.blocking))
        => last.path = "Done"

\* C20: the lane of the request floor is used last-in-first-out: a blocking
\* pallet leaves the floor in the cross-floor pass, and comes back to it in
\* the restoring pass, only while no slot of the floor with a smaller index
\* than its own is occupied.
C20_LaneLifo ==
    [][(stack # <<>> /\ Len(stack') = Len(stack)) =>
          /\ (phase(top) = "cross" /\ stack'[Len(stack)].bi = top.bi + 1) =>
                LET block == sorted(top.blocking)[top.bi]
                IN  \A k \in SlotIdx : k < block[2] - 1 => ~warehouse[top.FLOOR][k]
          /\ (/\ phase(top) = "restore"
              /\ stack'[Len(stack)].ri = top.ri - 1
              /\ top.moves[top.ri][1][1] = top.FLOOR) =>
                LET orig == top.moves[top.ri][1]
                IN  \A k \in SlotIdx : k < orig[2] => ~warehouse[top.FLOOR][k]
      ]_vars

====
